---------------------------- MODULE Spec2Model ----------------------------
(***************************************************************************)
(* A model of android/build.py (py-androidbuild): the artifact types, the  *)
(* PlatformTarget stage methods, get_platform, and the AndroidProject      *)
(* facade (compile / build / clean).                                       *)
(*                                                                         *)
(* Strings are sequences of tokens.  The tokens "/", "." and "-" are the   *)
(* separators the code splits or joins on; every other token is an opaque  *)
(* run of characters (version identifiers are spelled digit by digit so    *)
(* that Python's string ordering can be computed).  The filesystem is the  *)
(* set of paths that exist.  The command line tools (tools.py) are not     *)
(* part of build.py: an invocation either succeeds, and then its output    *)
(* path exists, or fails, and then the wrapper raises.                     *)
(***************************************************************************)
EXTENDS Integers, Sequences, FiniteSets, TLC

VARIABLES
    \* ---- AndroidProject and the filesystem it works on
    project,     \* the fields set by AndroidProject.__init__
    fs,          \* the set of paths that exist
    code,        \* the ``code`` attribute: absent, or a CodeObj
    trace,       \* the tool invocations of the most recent call, in order
    ret,         \* what the most recent call returned or raised
    lastCall,    \* the most recent call: its name, arguments and pre-state
    hist,        \* one summary per compile()/build()/clean() call so far
    \* ---- get_platform
    sdk_path,    \* the SDK root handed to get_platform
    listing,     \* os.listdir(<sdk>/platforms), in the order the OS gives
    request,     \* the ``target`` argument of the most recent get_platform
    resolved,    \* what the most recent get_platform returned or raised
    defaults,    \* every result a call without target has produced so far
    \* ---- PlatformTarget.align
    win32,       \* whether os.rename refuses an existing destination
    files,       \* path -> content of the package files that exist
    alignCall,   \* the most recent align call: its arguments and pre-state
    alignRet,    \* what the most recent align call returned or raised
    aligns       \* number of align calls so far

projectVars == <<project, fs, code, trace, ret, lastCall, hist>>
platformVars == <<sdk_path, listing, request, resolved, defaults>>
alignVars == <<win32, files, alignCall, alignRet, aligns>>
vars == <<projectVars, platformVars, alignVars>>

----------------------------------------------------------------------------
(* Bounds of the model                                                     *)

MaxCalls == 3
MaxPlatforms == 3
MaxAligns == 3

----------------------------------------------------------------------------
(* Strings and paths (os.path)                                             *)

Max(S) == CHOOSE x \in S : \A y \in S : y <= x

Cwd == <<"/", "work">>

IsAbs(p) == p # <<>> /\ p[1] = "/"

SepIdx(p) == {i \in 1..Len(p) : p[i] = "/"}

\* os.path.join(a, b): an absolute b throws a away
PathJoin(a, b) ==
    IF IsAbs(b) THEN b
    ELSE IF a = <<>> \/ a[Len(a)] = "/" THEN a \o b
    ELSE a \o <<"/">> \o b

\* os.path.abspath(p) (the paths of the model hold no "." or ".." segment)
AbsPath(p) == IF IsAbs(p) THEN p ELSE PathJoin(Cwd, p)

\* os.path.dirname(p)
DirName(p) ==
    IF SepIdx(p) = {} THEN <<>>
    ELSE LET i == Max(SepIdx(p))
         IN  IF i = 1 THEN <<"/">> ELSE SubSeq(p, 1, i - 1)

\* os.path.basename(p)
BaseName(p) ==
    IF SepIdx(p) = {} THEN p ELSE SubSeq(p, Max(SepIdx(p)) + 1, Len(p))

\* every directory above p
Ancestors(p) == {DirName(SubSeq(p, 1, i)) : i \in 2..Len(p)} \ {<<>>, p}

\* the paths of fs below directory root
Under(paths, root) ==
    {p \in paths : /\ Len(p) > Len(root) + 1
                   /\ SubSeq(p, 1, Len(root)) = root
                   /\ p[Len(root) + 1] = "/"}

\* fnmatch against '*.<ext>'
HasExt(p, ext) == Len(p) >= 2 /\ p[Len(p)] = ext /\ p[Len(p) - 1] = "."

RECURSIVE SetToSeq(_)
SetToSeq(S) ==
    IF S = {} THEN <<>>
    ELSE LET x == CHOOSE y \in S : TRUE
         IN  <<x>> \o SetToSeq(S \ {x})

RECURSIVE Flatten(_)
Flatten(ss) == IF ss = <<>> THEN <<>> ELSE Head(ss) \o Flatten(Tail(ss))

\* recursive_glob(treeroot, '*.<ext>'): the matching files below treeroot,
\* in the order os.walk meets them
recursive_glob(paths, treeroot, ext) ==
    SetToSeq({p \in Under(paths, treeroot) : HasExt(p, ext)})

\* mkdir(directory, recursive): the directories that exist afterwards
mkdir(directory, recursive) ==
    IF recursive THEN {directory} \cup Ancestors(directory) ELSE {directory}

\* shutil.rmtree(d)
rmtree(paths, d) == paths \ ({d} \cup Under(paths, d))

----------------------------------------------------------------------------
(* Artifact types                                                          *)

NoCode == [kind |-> "absent"]

CodeObj(filename) == [kind |-> "CodeObj", filename |-> filename]

ResourceObj(filename) == [kind |-> "ResourceObj", filename |-> filename]

Apk(platform, filename) ==
    [kind |-> "Apk", filename |-> filename, platform |-> platform]

----------------------------------------------------------------------------
(* PlatformTarget                                                          *)

PlatformTarget(version, sdk_dir, platform_dir) ==
    [version |-> version,
     sdk_dir |-> sdk_dir,
     platform_dir |-> platform_dir,
     framework_library |-> PathJoin(platform_dir, <<"android", ".", "jar">>),
     framework_aidl |-> PathJoin(platform_dir, <<"framework", ".", "aidl">>)]

\* One tool invocation a stage makes: ``pre`` are the directories the stage
\* creates before it calls the tool, ``out`` the paths the tool writes when
\* it succeeds.
Invocation(stage, tool, args, pre, out) ==
    [stage |-> stage, tool |-> tool, args |-> args, pre |-> pre, out |-> out]

generate_r(pt, manifest, resource_dir, output_dir) ==
    Invocation("generate_r", "aapt",
        [command |-> "package",
         make_dirs |-> TRUE,
         manifest |-> manifest,
         resource_dir |-> resource_dir,
         r_output |-> output_dir,
         include |-> <<pt.framework_library>>],
        mkdir(output_dir, FALSE),
        {PathJoin(output_dir, <<"R", ".", "java">>)})

\* the Java stub aidl writes for one .aidl file
AidlStub(filename, output_dir) ==
    LET b == BaseName(filename)
    IN  PathJoin(output_dir, SubSeq(b, 1, Len(b) - 1) \o <<"java">>)

compile_aidl(pt, paths, source_dir, output_dir) ==
    LET found == recursive_glob(paths, source_dir, "aidl")
    IN  [i \in 1..Len(found) |->
            Invocation("compile_aidl", "aidl",
                [filename |-> found[i],
                 preprocessed |-> pt.framework_aidl,
                 search_path |-> source_dir,
                 output_folder |-> output_dir],
                {},
                {AidlStub(found[i], output_dir)})]

compile_java(pt, paths, source_dirs, output_dir) ==
    Invocation("compile_java", "javac",
        [source_dirs |-> source_dirs,
         files |-> Flatten([i \in 1..Len(source_dirs) |->
                               recursive_glob(paths, source_dirs[i], "java")]),
         target |-> "1.5",
         debug |-> FALSE,
         destdir |-> output_dir,
         bootclasspath |-> pt.framework_library],
        mkdir(output_dir, TRUE),
        {})

dex(pt, source_dir, output) ==
    Invocation("dex", "dx",
        [inputs |-> <<source_dir>>, output |-> AbsPath(output)],
        {},
        {AbsPath(output)})

\* the paths that exist once the invocations invs have all succeeded
After(paths, invs) ==
    paths \cup UNION {invs[i].pre \cup invs[i].out : i \in 1..Len(invs)}

\* a compile that runs javac before the interface compiler
CompileJavaBeforeAidl(pt, paths, kw) ==
    LET r == <<generate_r(pt, kw.manifest, kw.resource_dir, kw.source_gen_dir)>>
        j == <<compile_java(pt, After(paths, r),
                            <<kw.source_dir, kw.source_gen_dir>>,
                            kw.class_gen_dir)>>
        a == compile_aidl(pt, After(paths, r \o j), kw.source_dir,
                          kw.source_gen_dir)
        d == <<dex(pt, kw.class_gen_dir, kw.dex_output)>>
    IN  r \o j \o a \o d

\* PlatformTarget.compile(**kw): the invocations it makes, in order, each
\* with the arguments it gets when everything before it has succeeded
PlatformTarget_compile(pt, paths, kw) ==
    LET r == <<generate_r(pt, kw.manifest, kw.resource_dir, kw.source_gen_dir)>>
        a == compile_aidl(pt, After(paths, r), kw.source_dir, kw.source_gen_dir)
        j == <<compile_java(pt, After(paths, r \o a),
                            <<kw.source_dir, kw.source_gen_dir>>,
                            kw.class_gen_dir)>>
        d == <<dex(pt, kw.class_gen_dir, kw.dex_output)>>
    IN  r \o a \o j \o d

\* a pack_resources that leaves the overwrite flag to the caller
pack_resources_overwrite_optional(pt, kw) ==
    LET output == AbsPath(kw.output)
        kwargs == [command |-> "package",
                   manifest |-> kw.manifest,
                   resource_dir |-> kw.resource_dir,
                   include |-> <<pt.framework_library>>,
                   apk_output |-> output,
                   configurations |-> kw.configurations,
                   overwrite |-> ("overwrite" \in DOMAIN kw)]
    IN  Invocation("pack_resources", "aapt",
            IF "asset_dir" \in DOMAIN kw /\ kw.asset_dir # <<>>
            THEN kwargs @@ [asset_dir |-> kw.asset_dir]
            ELSE kwargs,
            {},
            {output})

\* PlatformTarget.pack_resources(**kw)
pack_resources(pt, kw) ==
    LET output == AbsPath(kw.output)
        kwargs == [command |-> "package",
                   manifest |-> kw.manifest,
                   resource_dir |-> kw.resource_dir,
                   include |-> <<pt.framework_library>>,
                   apk_output |-> output,
                   configurations |-> kw.configurations,
                   overwrite |-> TRUE]
    IN  Invocation("pack_resources", "aapt",
            IF "asset_dir" \in DOMAIN kw /\ kw.asset_dir # <<>>
            THEN kwargs @@ [asset_dir |-> kw.asset_dir]
            ELSE kwargs,
            {},
            {output})

\* PlatformTarget.build_apk(output, code, resources)
build_apk(pt, output, codeArg, resources) ==
    LET outputfile == AbsPath(output)
        dexArg == IF codeArg.kind = "absent" THEN [x \in {} |-> x]
                  ELSE [dex |-> codeArg.filename]
        zipArg == IF resources.kind = "absent" THEN [x \in {} |-> x]
                  ELSE [zips |-> <<resources.filename>>]
    IN  Invocation("build_apk", "apkbuilder",
            [outputfile |-> outputfile] @@ dexArg @@ zipArg,
            {},
            {outputfile})

----------------------------------------------------------------------------
(* Running a sequence of tool invocations                                  *)

\* a run that swallows the failure and goes on
ExecutedKeepGoing(invs, k) ==
    [i \in 1..Len(invs) |->
        [stage |-> invs[i].stage, tool |-> invs[i].tool,
         args |-> invs[i].args, ok |-> (i # k)]]

\* The invocations actually made when the k-th one fails (k = 0: none
\* fails): a failing tool raises, and nothing in build.py catches it.
Executed(invs, k) ==
    [i \in 1..(IF k = 0 THEN Len(invs) ELSE k) |->
        [stage |-> invs[i].stage, tool |-> invs[i].tool,
         args |-> invs[i].args, ok |-> (i # k)]]

\* a call that takes every run for a success
TakenForSuccess(tr) == TRUE

Succeeded(tr) == \A i \in 1..Len(tr) : tr[i].ok

\* the filesystem after the run tr of invs
FsAfter(paths, invs, tr) ==
    paths \cup UNION {invs[i].pre : i \in 1..Len(tr)}
          \cup UNION {invs[i].out : i \in {n \in 1..Len(tr) : tr[n].ok}}

Raised(exc) == [kind |-> "raised", exc |-> exc]

ReturnedNone == [kind |-> "None"]

----------------------------------------------------------------------------
(* AndroidProject                                                          *)

\* the package attribute of the manifest's root element
ManifestPackage == <<"com", ".", "example", ".", "app">>

\* AndroidProject.__init__(manifest, name, platform)
AndroidProject_init(manifestArg, nameArg, platform) ==
    LET manifest == AbsPath(manifestArg)
        project_dir == DirName(manifest)
    IN  [platform |-> platform,
         manifest |-> manifest,
         resource_dir |-> PathJoin(project_dir, <<"res">>),
         gen_dir |-> PathJoin(project_dir, <<"gen">>),
         source_dir |-> PathJoin(project_dir, <<"src">>),
         out_dir |-> PathJoin(project_dir, <<"bin">>),
         asset_dir |-> PathJoin(project_dir, <<"asset">>),
         name |-> IF nameArg = <<>> THEN ManifestPackage ELSE nameArg]

\* no AndroidProject object: the constructor has not run, or it raised
NoProject == [kind |-> "unconstructed"]

\* there is an object to call compile(), build() and clean() on
Constructed(p) == "platform" \in DOMAIN p

\* the keyword arguments AndroidProject.compile hands to the platform
CompileArgs(p) ==
    [dex_output |-> PathJoin(p.out_dir, <<"classes", ".", "dex">>),
     manifest |-> p.manifest,
     source_dir |-> p.source_dir,
     resource_dir |-> p.resource_dir,
     source_gen_dir |-> p.gen_dir,
     class_gen_dir |-> PathJoin(p.out_dir, <<"classes">>)]

\* the CodeObj PlatformTarget.compile returns: what its dex stage returns
CompiledCode(invs) == CodeObj(invs[Len(invs)].args.output)

\* a build that recompiles every time
AlwaysCompile(c) == TRUE

\* AndroidProject.build: ``if not hasattr(self, 'code')``
NeedsCompile(c) == c.kind = "absent"

\* AndroidProject.build: the resource archive's filename
ResourceFilename(p, config) ==
    IF config = <<>>
    THEN PathJoin(p.out_dir, p.name \o <<".", "ap_">>)
    ELSE PathJoin(p.out_dir, p.name \o <<".">> \o config \o <<".", "ap_">>)

\* a package named after the configuration, like the resource archive
PackageFilenameWithConfig(p, config) ==
    IF config = <<>>
    THEN PathJoin(p.out_dir, p.name \o <<".", "apk">>)
    ELSE PathJoin(p.out_dir, p.name \o <<".">> \o config \o <<".", "apk">>)

\* AndroidProject.build: the final package's filename
PackageFilename(p, config) == PathJoin(p.out_dir, p.name \o <<".", "apk">>)

\* keyword arguments that name the asset directory whether it exists or not
PackArgsWithAssets(p, paths, config) ==
    [manifest |-> p.manifest,
     resource_dir |-> p.resource_dir,
     configurations |-> config,
     output |-> ResourceFilename(p, config),
     asset_dir |-> p.asset_dir]

\* AndroidProject.build: the keyword arguments for pack_resources
PackArgs(p, paths, config) ==
    LET kwargs == [manifest |-> p.manifest,
                   resource_dir |-> p.resource_dir,
                   configurations |-> config,
                   output |-> ResourceFilename(p, config)]
    IN  IF p.asset_dir \in paths
        THEN kwargs @@ [asset_dir |-> p.asset_dir]
        ELSE kwargs

\* a build that assembles the package from the archive of the default
\* configuration instead of the one it has just packed
BuildTailDefaultArchive(p, paths, config, c) ==
    LET pack == pack_resources(p.platform, PackArgs(p, paths, config))
        resources == ResourceObj(AbsPath(ResourceFilename(p, <<>>)))
    IN  <<pack, build_apk(p.platform, PackageFilename(p, config), c, resources)>>

\* AndroidProject.build: the invocations after the compile, given the code
\* object the project then holds
BuildTail(p, paths, config, c) ==
    LET pack == pack_resources(p.platform, PackArgs(p, paths, config))
        resources == ResourceObj(pack.args.apk_output)
    IN  <<pack, build_apk(p.platform, PackageFilename(p, config), c, resources)>>

\* the invocations of build(), given the compile invocations it starts with
BuildAfter(p, paths, c, cinvs, config) ==
    cinvs \o BuildTail(p, After(paths, cinvs), config,
                       IF cinvs # <<>> THEN CompiledCode(cinvs) ELSE c)

\* a build that writes the package to ``output`` when one is given
BuildInvocationsToOutput(p, paths, c, output, config) ==
    LET invs == BuildAfter(p, paths, c,
                    IF NeedsCompile(c)
                    THEN PlatformTarget_compile(p.platform, paths, CompileArgs(p))
                    ELSE <<>>, config)
        n == Len(invs)
    IN  IF output = <<>> THEN invs
        ELSE [invs EXCEPT ![n].args.outputfile = AbsPath(output),
                          ![n].out = {AbsPath(output)}]

\* AndroidProject.build(output, config): every invocation it makes, in order
BuildInvocations(p, paths, c, output, config) ==
    BuildAfter(p, paths, c,
               IF NeedsCompile(c)
               THEN PlatformTarget_compile(p.platform, paths, CompileArgs(p))
               ELSE <<>>, config)

\* a clean that forgets the compiled code
ForgetCode(c) == NoCode

\* AndroidProject.clean: the ``code`` attribute afterwards (clean does not
\* assign it)
CodeAfterClean(c) == c

\* AndroidProject.clean
CleanFs(p, paths) ==
    LET fs1 == IF p.out_dir \in paths THEN rmtree(paths, p.out_dir) ELSE paths
    IN  IF p.out_dir \in fs1 THEN rmtree(fs1, p.gen_dir) ELSE fs1

----------------------------------------------------------------------------
(* The project under build and its directory                               *)

\* the platform the project is constructed with
ThePlatform ==
    PlatformTarget(<<"1", "0">>, <<"/", "sdk">>,
                   <<"/", "sdk", "/", "platforms", "/", "android", "-", "1", "0">>)

\* AndroidProject(manifest, name=..., platform=ThePlatform)
ProjectArgs ==
    {[manifest |-> <<"AndroidManifest", ".", "xml">>, name |-> <<>>],
     [manifest |-> <<"/", "proj", "/", "AndroidManifest", ".", "xml">>,
      name |-> <<"app">>]}

\* the .aidl files the source tree may hold
AidlNames == {<<"A", ".", "aidl">>, <<"B", ".", "aidl">>}

\* the configuration values build() is called with (<<>>: none given)
Configs == {<<>>, <<"de">>}

\* the output arguments build() is called with (<<>>: none given)
Outputs == {<<>>, <<"/", "tmp", "/", "x", ".", "apk">>}

\* what the project directory holds before any build
SourceTree(p, aidl) ==
    {p.manifest, DirName(p.manifest), p.resource_dir, p.source_dir,
     PathJoin(p.source_dir, <<"Main", ".", "java">>)}
    \cup Ancestors(p.manifest)
    \cup {PathJoin(p.source_dir, f) : f \in aidl}

IdleCall == [op |-> "none"]

NoHistory == [calls |-> 0, compiles |-> 0, builds |-> 0, java |-> 0,
              builtFirst |-> FALSE, failed |-> FALSE, last |-> "none"]

InitProject ==
    /\ \E a \in ProjectArgs :
           project = AndroidProject_init(a.manifest, a.name, ThePlatform)
    /\ \E aidl \in {{}, {<<"A", ".", "aidl">>}, AidlNames},
          dirs \in SUBSET {"bin", "gen"} :
           fs = SourceTree(project, aidl)
                \cup {PathJoin(DirName(project.manifest), <<d>>) : d \in dirs}
    /\ code = NoCode
    /\ trace = <<>>
    /\ ret = ReturnedNone
    /\ lastCall = IdleCall
    /\ hist = NoHistory

\* number of invocations of a stage in a run
StageCount(tr, stage) == Cardinality({i \in 1..Len(tr) : tr[i].stage = stage})

\* the calls made so far, counted: compile() and build() calls, the
\* compile_java invocations they made, whether the first of them was a
\* build(), whether any of them raised, and which call came last
Summary(h, op, tr) ==
    [calls |-> h.calls + 1,
     compiles |-> h.compiles + (IF op = "compile" THEN 1 ELSE 0),
     builds |-> h.builds + (IF op = "build" THEN 1 ELSE 0),
     java |-> h.java + StageCount(tr, "compile_java"),
     builtFirst |-> IF h.compiles + h.builds = 0 THEN op = "build"
                    ELSE h.builtFirst,
     failed |-> h.failed \/ ~Succeeded(tr),
     last |-> op]

\* the call being made, with what it found: the call made before it, the
\* directories and the resource archive that existed, and the code object
\* the project held
CallRecord(op, output, config) ==
    [op |-> op, output |-> output, config |-> config,
     bin |-> project.out_dir \in fs,
     gen |-> project.gen_dir \in fs,
     asset |-> project.asset_dir \in fs,
     archive |-> AbsPath(ResourceFilename(project, config)) \in fs,
     after |-> hist.last,
     code |-> code]

\* AndroidProject.compile()
Compile ==
    /\ Constructed(project)
    /\ hist.calls < MaxCalls
    /\ \E invs \in {PlatformTarget_compile(project.platform, fs,
                                           CompileArgs(project))} :
         \E k \in 0..Len(invs) :
           \E tr \in {Executed(invs, k)} :
             /\ trace' = tr
             /\ fs' = FsAfter(fs, invs, tr)
             /\ code' = IF Succeeded(tr) THEN CompiledCode(invs) ELSE code
             /\ ret' = IF Succeeded(tr) THEN ReturnedNone
                       ELSE Raised("ProgramFailedError")
             /\ lastCall' = CallRecord("compile", <<>>, <<>>)
             /\ hist' = Summary(hist, "compile", tr)
    /\ UNCHANGED <<project, platformVars, alignVars>>

\* AndroidProject.build(output, config)
Build ==
    /\ Constructed(project)
    /\ hist.calls < MaxCalls
    /\ \E output \in Outputs, config \in Configs :
         \E cinvs \in {IF NeedsCompile(code)
                       THEN PlatformTarget_compile(project.platform, fs,
                                                   CompileArgs(project))
                       ELSE <<>>} :
           \E codeAfter \in {IF cinvs # <<>> THEN CompiledCode(cinvs)
                             ELSE code} :
             \E invs \in {BuildInvocations(project, fs, code, output,
                                           config)} :
               \E k \in 0..Len(invs) :
                 \E tr \in {Executed(invs, k)} :
                   /\ trace' = tr
                   /\ fs' = FsAfter(fs, invs, tr)
                   /\ code' = IF /\ cinvs # <<>>
                                 /\ Len(tr) >= Len(cinvs)
                                 /\ \A i \in 1..Len(cinvs) : tr[i].ok
                              THEN codeAfter ELSE code
                   /\ ret' = IF Succeeded(tr)
                             THEN Apk(project.platform,
                                      invs[Len(invs)].args.outputfile)
                             ELSE Raised("ProgramFailedError")
                   /\ lastCall' = CallRecord("build", output, config)
                   /\ hist' = Summary(hist, "build", tr)
    /\ UNCHANGED <<project, platformVars, alignVars>>

\* AndroidProject.clean()
Clean ==
    /\ Constructed(project)
    /\ hist.calls < MaxCalls
    /\ fs' = CleanFs(project, fs)
    /\ trace' = <<>>
    /\ ret' = ReturnedNone
    /\ lastCall' = CallRecord("clean", <<>>, <<>>)
    /\ hist' = Summary(hist, "clean", <<>>)
    /\ code' = CodeAfterClean(code)
    /\ UNCHANGED <<project, platformVars, alignVars>>

\* between two calls the developer adds or removes the asset directory
TouchAssets ==
    /\ Constructed(project)
    /\ fs' = IF project.asset_dir \in fs THEN rmtree(fs, project.asset_dir)
             ELSE fs \cup {project.asset_dir}
    /\ UNCHANGED <<project, code, trace, ret, lastCall, hist>>
    /\ UNCHANGED <<platformVars, alignVars>>

IdleProject ==
    /\ project = [name |-> <<>>]
    /\ fs = {}
    /\ code = NoCode
    /\ trace = <<>>
    /\ ret = ReturnedNone
    /\ lastCall = IdleCall
    /\ hist = NoHistory

IdlePlatform ==
    /\ sdk_path = <<>>
    /\ listing = <<>>
    /\ request = <<>>
    /\ resolved = [kind |-> "none"]
    /\ defaults = {}

IdleAlign ==
    /\ win32 = FALSE
    /\ files = <<>>
    /\ alignCall = IdleCall
    /\ alignRet = [kind |-> "none"]
    /\ aligns = 0

Init == InitProject /\ IdlePlatform /\ IdleAlign

Next == Compile \/ Build \/ Clean \/ TouchAssets

Spec == Init /\ [][Next]_vars

----------------------------------------------------------------------------
(* get_platform                                                            *)

Digits == <<"0", "1", "2", "3", "4", "5", "6", "7", "8", "9">>

\* the position of a digit character in the character set: the digits are
\* contiguous and ascending
CharOrd(c) == CHOOSE n \in 1..Len(Digits) : Digits[n] = c

\* Python's  a < b  on strings
StrLess(a, b) ==
    \E i \in 1..Len(b) :
        /\ \A j \in 1..(i - 1) : j <= Len(a) /\ a[j] = b[j]
        /\ \/ i = Len(a) + 1
           \/ i <= Len(a) /\ CharOrd(a[i]) < CharOrd(b[i])

\* sorted(keys)
sorted(S) ==
    CHOOSE s \in [1..Cardinality(S) -> S] :
        \A i, j \in 1..Cardinality(S) : i < j => StrLess(s[i], s[j])

\* int(v) of a digit string
RECURSIVE NumVal(_)
NumVal(v) ==
    IF v = <<>> THEN 0
    ELSE 10 * NumVal(SubSeq(v, 1, Len(v) - 1)) + (CharOrd(v[Len(v)]) - 1)

\* p.rsplit('-', 1)
rsplit(p) ==
    LET idx == {i \in 1..Len(p) : p[i] = "-"}
    IN  IF idx = {} THEN <<p>>
        ELSE <<SubSeq(p, 1, Max(idx) - 1), SubSeq(p, Max(idx) + 1, Len(p))>>

\* the entries of <sdk>/platforms that are directories, as paths, in
\* listing order
PlatformDirs(sdk, lst) ==
    LET dirs == SelectSeq(lst, LAMBDA e : e.isdir)
    IN  [i \in 1..Len(dirs) |->
            PathJoin(PathJoin(sdk, <<"platforms">>), dirs[i].name)]

\* dict([(p.rsplit('-', 1)[1], p) for p in platforms]): a later pair
\* replaces an earlier one with the same key
PlatformsDict(ps) ==
    [k \in {rsplit(ps[i])[2] : i \in 1..Len(ps)} |->
        ps[Max({i \in 1..Len(ps) : rsplit(ps[i])[2] = k})]]

\* the latest target by version number
NumericLatest(keys) ==
    CHOOSE k \in keys : \A o \in keys : NumVal(o) <= NumVal(k)

\* sorted(platforms.keys())[-1]

Latest(keys) == sorted(keys)[Cardinality(keys)]

\* a lookup that falls back to the latest platform
FallBackToLatest(d, target, sdk) ==
    IF DOMAIN d = {} THEN Raised("IndexError")
    ELSE LET t == IF target \in DOMAIN d THEN target ELSE Latest(DOMAIN d)
         IN  [kind |-> "PlatformTarget",
              value |-> PlatformTarget(t, sdk, d[t])]

\* the lookup of the target and the construction of the PlatformTarget
LookupTarget(d, target, sdk) ==
    IF target \in DOMAIN d
    THEN [kind |-> "PlatformTarget",
          value |-> PlatformTarget(target, sdk, d[target])]
    ELSE [kind |-> "raised", exc |-> "ValueError",
          msg |-> <<"target \"">> \o target \o <<"\" not found in \"">>
                  \o sdk \o <<"\"">>]

get_platform(sdk, lst, target) ==
    LET ps == PlatformDirs(sdk, lst)
    IN  IF \E i \in 1..Len(ps) : Len(rsplit(ps[i])) < 2
        THEN Raised("IndexError")
        ELSE IF target = <<>> /\ ps = <<>>
        THEN Raised("IndexError")
        ELSE LookupTarget(PlatformsDict(ps),
                          IF target = <<>>
                          THEN Latest(DOMAIN PlatformsDict(ps)) ELSE target,
                          sdk)

\* the SDK roots, the platform versions that may be installed and the
\* targets asked for (<<>>: no target)
SdkPaths == {<<"/", "sdk">>, <<"/", "opt", "/", "android", "-", "sdk">>}

VersionIds == {<<"8">>, <<"9">>, <<"1", "0">>, <<"1", "9">>}

Targets == {<<>>, <<"7">>} \cup VersionIds

Entries ==
    {[name |-> <<"android", "-">> \o v, isdir |-> d] :
        v \in VersionIds, d \in BOOLEAN}

Listings ==
    {s \in UNION {[1..n -> Entries] : n \in 0..MaxPlatforms} :
        \A i, j \in 1..Len(s) : i < j => s[i].name # s[j].name}

InitPlatform ==
    /\ sdk_path \in SdkPaths
    /\ listing \in Listings
    /\ request = <<>>
    /\ resolved = [kind |-> "none"]
    /\ defaults = {}

\* get_platform(sdk_path, target)
GetPlatform ==
    /\ \E t \in Targets :
         \E r \in {get_platform(sdk_path, listing, t)} :
           /\ request' = t
           /\ resolved' = r
           /\ defaults' = IF t = <<>> THEN defaults \cup {r} ELSE defaults
    /\ UNCHANGED <<sdk_path, listing, projectVars, alignVars>>

\* os.listdir gives the entries in arbitrary order: another order of the
\* same entries
Relist ==
    /\ \E i \in 1..(Len(listing) - 1) :
         listing' = [listing EXCEPT ![i] = listing[i + 1],
                                    ![i + 1] = listing[i]]
    /\ UNCHANGED <<sdk_path, request, resolved, defaults>>
    /\ UNCHANGED <<projectVars, alignVars>>

NextPlatform == GetPlatform \/ Relist

InitResolve == IdleProject /\ InitPlatform /\ IdleAlign

SpecPlatform == InitResolve /\ [][NextPlatform]_vars

\* ---------------------------------------------------------------------------
\* constructing the project: AndroidProject(manifest, name, platform,
\* sdk_dir, target), then the calls on the object it gave

\* platform=None
NoPlatform == [kind |-> "None"]

\* ValueError('You need to provide the SDK path, or a PlatformTarget
\* instancen.')
SdkPathNeeded ==
    [kind |-> "raised", exc |-> "ValueError",
     msg |-> <<"You need to provide the SDK path, or a PlatformTarget instancen.">>]

\* a constructor that looks for the SDK at /sdk when it is given neither a
\* platform nor an SDK path
ConstructWithDefaultSdk(manifestArg, nameArg, platformArg, sdkArg, targetArg, lst) ==
    LET sdk == IF sdkArg = <<>> THEN <<"/", "sdk">> ELSE sdkArg
        found == IF platformArg = NoPlatform
                 THEN get_platform(sdk, lst, targetArg)
                 ELSE [kind |-> "PlatformTarget", value |-> platformArg]
        reads == IF platformArg = NoPlatform THEN <<"listdir">> ELSE <<>>
    IN  IF found.kind = "raised"
        THEN [ret |-> found, object |-> NoProject, reads |-> reads]
        ELSE [ret |-> ReturnedNone,
              object |-> AndroidProject_init(manifestArg, nameArg, found.value),
              reads |-> reads \o (IF nameArg = <<>> THEN <<"parse">> ELSE <<>>)]

\* AndroidProject.__init__: what the constructor raises or the object it
\* leaves, and what it read on the way (the listing of <sdk>/platforms for
\* get_platform, the manifest for the package name); lst is that listing
AndroidProject_new(manifestArg, nameArg, platformArg, sdkArg, targetArg, lst) ==
    IF platformArg = NoPlatform /\ sdkArg = <<>>
    THEN [ret |-> SdkPathNeeded, object |-> NoProject, reads |-> <<>>]
    ELSE LET found == IF platformArg = NoPlatform
                      THEN get_platform(sdkArg, lst, targetArg)
                      ELSE [kind |-> "PlatformTarget", value |-> platformArg]
             reads == IF platformArg = NoPlatform THEN <<"listdir">> ELSE <<>>
         IN  IF found.kind = "raised"
             THEN [ret |-> found, object |-> NoProject, reads |-> reads]
             ELSE [ret |-> ReturnedNone,
                   object |-> AndroidProject_init(manifestArg, nameArg,
                                                  found.value),
                   reads |-> reads \o (IF nameArg = <<>> THEN <<"parse">>
                                       ELSE <<>>)]

\* what <sdk>/platforms may hold when a project is constructed
SdkLayouts ==
    {<<>>,
     <<[name |-> <<"android", "-", "8">>, isdir |-> TRUE]>>,
     <<[name |-> <<"android", "-", "9">>, isdir |-> TRUE],
       [name |-> <<"android", "-", "1", "0">>, isdir |-> TRUE]>>}

\* the targets a constructor call may name
ConstructTargets == {<<>>, <<"7">>, <<"9">>}

\* the disk before the constructor runs: the source tree of every project
\* that may be constructed, and an SDK
InitDisk ==
    /\ project = NoProject
    /\ fs = UNION {SourceTree(AndroidProject_init(a.manifest, a.name,
                                                  ThePlatform),
                              {<<"A", ".", "aidl">>}) : a \in ProjectArgs}
    /\ code = NoCode
    /\ trace = <<>>
    /\ ret = ReturnedNone
    /\ lastCall = IdleCall
    /\ hist = NoHistory
    /\ sdk_path = <<"/", "sdk">>
    /\ listing \in SdkLayouts
    /\ request = <<>>
    /\ resolved = [kind |-> "none"]
    /\ defaults = {}

\* project = AndroidProject(manifest, name, platform, sdk_dir, target),
\* once in a run
Construct ==
    /\ project = NoProject
    /\ lastCall = IdleCall
    /\ \E a \in ProjectArgs, platformArg \in {NoPlatform, ThePlatform},
          sdkArg \in {<<>>, sdk_path}, targetArg \in ConstructTargets :
         \E r \in {AndroidProject_new(a.manifest, a.name, platformArg,
                                      sdkArg, targetArg, listing)} :
           /\ project' = r.object
           /\ ret' = r.ret
           /\ lastCall' = [op |-> "construct", manifest |-> a.manifest,
                           name |-> a.name, platform |-> platformArg,
                           sdk_dir |-> sdkArg, target |-> targetArg,
                           reads |-> r.reads]
    /\ UNCHANGED <<fs, code, trace, hist, platformVars, alignVars>>

NextConstruct == Construct \/ Compile \/ Build \/ Clean \/ TouchAssets

InitConstruct == InitDisk /\ IdleAlign

SpecConstruct == InitConstruct /\ [][NextConstruct]_vars

----------------------------------------------------------------------------
(* PlatformTarget.align                                                    *)

\* the package files, the output paths and the values of time.time()
PackagePaths ==
    {<<"/", "out", "/", "app", ".", "apk">>,
     <<"/", "out", "/", "lib", ".", "apk">>}

AlignOutputs == {<<>>, <<"/", "out", "/", "aligned", ".", "apk">>}

Times == {"1320000000", "1320000001"}

\* the package argument: an Apk, or the path itself
Packages ==
    {Apk(ThePlatform, p) : p \in PackagePaths}
    \cup {[kind |-> "str", value |-> p] : p \in PackagePaths}

\* "%s.align.%s" % (infile, time.time())
TempName(infile, t) == infile \o <<".", "align", ".", t>>

\* the files <infile>.align.<time> that exist
TempsOf(fl, infile) ==
    {p \in DOMAIN fl : /\ Len(p) = Len(infile) + 4
                       /\ SubSeq(p, 1, Len(infile)) = infile
                       /\ SubSeq(p, Len(infile) + 1, Len(infile) + 3)
                              = <<".", "align", ".">>}

\* zipalign -f 4 infile outfile, succeeding: outfile is written
ZipAlign(fl, infile, outfile) ==
    [p \in DOMAIN fl \cup {outfile} |->
        IF p = outfile THEN "aligned" ELSE fl[p]]

\* a rename that copies and leaves the source in place
CopyFile(fl, src, dst) ==
    [p \in DOMAIN fl \cup {dst} |-> IF p = dst THEN fl[src] ELSE fl[p]]

\* os.rename(src, dst) where it replaces dst
os_rename(fl, src, dst) ==
    [p \in (DOMAIN fl \cup {dst}) \ {src} |->
        IF p = dst THEN fl[src] ELSE fl[p]]

\* apk.filename if isinstance(apk, Apk) else apk
PackagePath(apk) == IF apk.kind = "Apk" THEN apk.filename ELSE apk.value

\* an in-place align that moves the original aside before zipalign runs
AlignMovingOriginalAside(fl, w32, apk, output, t, toolOk) ==
    LET infile == PackagePath(apk)
        outfile == TempName(infile, t)
    IN  IF output # <<>>
        THEN [files |-> fl, invoked |-> <<>>, ret |-> Raised("UnboundLocalError")]
        ELSE IF infile \notin DOMAIN fl
        THEN [files |-> fl, invoked |-> <<>>, ret |-> Raised("OSError")]
        ELSE IF ~toolOk
        THEN [files |-> os_rename(fl, infile, outfile),
              invoked |-> <<[infile |-> outfile, outfile |-> infile, ok |-> FALSE]>>,
              ret |-> Raised("ProgramFailedError")]
        ELSE [files |-> ZipAlign(os_rename(fl, infile, outfile), outfile, infile),
              invoked |-> <<[infile |-> outfile, outfile |-> infile, ok |-> TRUE]>>,
              ret |-> [kind |-> "returned", value |-> apk]]

\* PlatformTarget.align(apk, output) at time t; toolOk: whether zipalign
\* succeeds when it is invoked
PlatformTarget_align(fl, w32, apk, output, t, toolOk) ==
    LET infile == PackagePath(apk)
        outfile == TempName(infile, t)
    IN  IF output # <<>>
        THEN \* outfile is assigned only when no output is given
             [files |-> fl, invoked |-> <<>>, ret |-> Raised("UnboundLocalError")]
        ELSE IF ~(toolOk /\ infile \in DOMAIN fl)
        THEN [files |-> fl,
              invoked |-> <<[infile |-> infile, outfile |-> outfile, ok |-> FALSE]>>,
              ret |-> Raised("ProgramFailedError")]
        ELSE IF w32
        THEN \* on Windows os.rename raises when the destination exists
             [files |-> ZipAlign(fl, infile, outfile),
              invoked |-> <<[infile |-> infile, outfile |-> outfile, ok |-> TRUE]>>,
              ret |-> Raised("OSError")]
        ELSE [files |-> os_rename(ZipAlign(fl, infile, outfile), outfile, infile),
              invoked |-> <<[infile |-> infile, outfile |-> outfile, ok |-> TRUE]>>,
              ret |-> [kind |-> "returned", value |-> apk]]

InitAlign ==
    /\ win32 \in BOOLEAN
    /\ \E S \in (SUBSET PackagePaths) \ {{}} : files = [p \in S |-> "package"]
    /\ alignCall = IdleCall
    /\ alignRet = [kind |-> "none"]
    /\ aligns = 0

\* platform.align(apk, output)
Align ==
    /\ aligns < MaxAligns
    /\ \E apk \in Packages, output \in AlignOutputs \cup PackagePaths,
          t \in Times, toolOk \in BOOLEAN :
         \E r \in {PlatformTarget_align(files, win32, apk, output, t, toolOk)} :
           /\ files' = r.files
           /\ alignRet' = r.ret
           /\ alignCall' = [op |-> "align", apk |-> apk, output |-> output,
                            time |-> t, toolOk |-> toolOk, files |-> files,
                            invoked |-> r.invoked]
    /\ aligns' = aligns + 1
    /\ UNCHANGED <<win32, projectVars, platformVars>>

NextAlign == Align

InitPackages == IdleProject /\ IdlePlatform /\ InitAlign

SpecAlign == InitPackages /\ [][NextAlign]_vars

----------------------------------------------------------------------------
(* Properties                                                              *)

\* the .aidl files of the source tree
AidlSources ==
    {p \in Under(fs, project.source_dir) : HasExt(p, "aidl")}

\* the position of a stage in the pipeline
StageRank(stage) ==
    CASE stage = "generate_r" -> 1
      [] stage = "compile_aidl" -> 2
      [] stage = "compile_java" -> 3
      [] stage = "dex" -> 4
      [] stage = "pack_resources" -> 5
      [] stage = "build_apk" -> 6

\* the version identifiers of the installed platform directories
InstalledVersions ==
    {SubSeq(listing[i].name, 3, Len(listing[i].name)) :
        i \in {n \in 1..Len(listing) : listing[n].isdir}}

\* C1: over any sequence of compile()/build() calls that all succeed, the
\* Java compilation stage has run once per compile() call, plus once more
\* exactly when the first of the calls was a build() (so compile(), compile()
\* runs it twice and compile(), build(), build() runs it once).
C1_JavaRunsOncePerCompile ==
    ~hist.failed =>
        hist.java = hist.compiles + (IF hist.builtFirst THEN 1 ELSE 0)

C1_Witness ==
    /\ ~hist.failed
    /\ hist.compiles = 1
    /\ hist.builds = 2
    /\ ~hist.builtFirst
    /\ hist.java = 1

\* C2: align(apk, output) with an output path different from the package's
\* path and a succeeding zipalign returns a new Apk whose filename is the
\* requested output, and leaves the original package file as it was.
C2_AlignToOutputReturnsNewApk ==
    (/\ alignCall.op = "align"
     /\ alignCall.output # <<>>
     /\ alignCall.output # PackagePath(alignCall.apk)
     /\ PackagePath(alignCall.apk) \in DOMAIN alignCall.files
     /\ alignCall.toolOk)
    => /\ alignRet.kind = "returned"
       /\ alignRet.value = Apk(ThePlatform, alignCall.output)
       /\ PackagePath(alignCall.apk) \in DOMAIN files
       /\ files[PackagePath(alignCall.apk)]
              = alignCall.files[PackagePath(alignCall.apk)]

\* C3: after clean() returns, neither the output directory (bin) nor the
\* generated-source directory (gen) exists, whichever of them existed before.
C3_CleanRemovesBinAndGen ==
    lastCall.op = "clean" =>
        project.out_dir \notin fs /\ project.gen_dir \notin fs

\* C4: after an in-place align(apk) returns, the original path still exists
\* and no file <path>.align.<time> exists.
C4_InPlaceAlignLeavesNoTemp ==
    (/\ alignCall.op = "align"
     /\ alignCall.output = <<>>
     /\ alignRet.kind = "returned")
    => /\ PackagePath(alignCall.apk) \in DOMAIN files
       /\ TempsOf(files, PackagePath(alignCall.apk)) = {}

C4_Witness ==
    /\ alignCall.op = "align"
    /\ alignCall.output = <<>>
    /\ alignRet.kind = "returned"
    /\ PackagePath(alignCall.apk) \in DOMAIN alignCall.files
    /\ files[PackagePath(alignCall.apk)] = "aligned"
    /\ aligns >= 2

C6_MissingTargetRaises ==
    (/\ resolved.kind # "none"
     /\ request # <<>>
     /\ request \notin InstalledVersions)
    => /\ resolved.kind = "raised"
       /\ resolved.exc = "ValueError"
       /\ resolved.msg = <<"target \"">> \o request
                         \o <<"\" not found in \"">> \o sdk_path \o <<"\"">>

C6_Witness ==
    /\ resolved.kind = "raised"
    /\ request = <<"1", "0">>
    /\ <<"1", "9">> \in InstalledVersions
    /\ \E i \in 1..Len(listing) :
           listing[i].name = <<"android", "-", "1", "0">> /\ ~listing[i].isdir

\* C7: with at least one installed platform directory, get_platform without
\* target selects the numerically greatest installed version, also when the
\* identifiers differ in digit count.
C7_DefaultIsNumericMaximum ==
    (/\ resolved.kind # "none"
     /\ request = <<>>
     /\ InstalledVersions # {})
    => /\ resolved.kind = "PlatformTarget"
       /\ \A w \in InstalledVersions :
              NumVal(w) <= NumVal(resolved.value.version)

\* C8: in every run of the composite compile the stages come in the order
\* generate_r, compile_aidl, compile_java, dex: compile_java runs only after
\* generate_r and the aidl invocation of every .aidl file have succeeded and
\* is given the source and the generated-source directory, dex runs only
\* after compile_java has succeeded, and on success the CodeObj wraps the
\* dex output path.
C8_CompileStageOrder ==
    /\ \A i \in 1..Len(trace) :
         /\ \A j \in 1..(i - 1) :
                StageRank(trace[j].stage) <= StageRank(trace[i].stage)
         /\ trace[i].stage = "compile_java" =>
              /\ \E j \in 1..(i - 1) :
                     trace[j].stage = "generate_r" /\ trace[j].ok
              /\ \A f \in AidlSources :
                     \E j \in 1..(i - 1) : /\ trace[j].stage = "compile_aidl"
                                           /\ trace[j].args.filename = f
                                           /\ trace[j].ok
              /\ trace[i].args.source_dirs
                     = <<project.source_dir, project.gen_dir>>
         /\ trace[i].stage = "dex" =>
              \E j \in 1..(i - 1) :
                  trace[j].stage = "compile_java" /\ trace[j].ok
    /\ (lastCall.op = "compile" /\ ret.kind = "None") =>
         /\ trace[Len(trace)].stage = "dex"
         /\ code = CodeObj(trace[Len(trace)].args.output)
         /\ code.filename
                = project.out_dir \o <<"/", "classes", ".", "dex">>

C8_Witness ==
    /\ lastCall.op = "compile"
    /\ ret.kind = "None"
    /\ StageCount(trace, "compile_aidl") = 2
    /\ StageCount(trace, "compile_java") = 1
    /\ StageCount(trace, "dex") = 1

\* C9: in compile() and build() a failing tool ends the call: the failing
\* invocation is the last one made (no later stage, no remaining .aidl
\* file), no invocation is made twice, and the call raises instead of
\* returning an artifact.
C9_FailFast ==
    lastCall.op \in {"compile", "build"} =>
        /\ \A i \in 1..Len(trace) : ~trace[i].ok => i = Len(trace)
        /\ \A i, j \in 1..Len(trace) :
               (i < j /\ trace[i].stage = trace[j].stage)
                   => trace[i].args # trace[j].args
        /\ ~Succeeded(trace) => ret = Raised("ProgramFailedError")

C9_Witness ==
    /\ lastCall.op = "build"
    /\ ret.kind = "raised"
    /\ Cardinality(AidlSources) = 2
    /\ StageCount(trace, "compile_aidl") = 1
    /\ trace[Len(trace)].stage = "compile_aidl"
    /\ ~trace[Len(trace)].ok

\* C10: a successful build(config) writes the resource archive to
\* <out>/<name>.ap_ without a config and to <out>/<name>.<config>.ap_ with
\* one, and returns an Apk at <out>/<name>.apk in both cases.
C10_ConfigNamesOnlyTheArchive ==
    (lastCall.op = "build" /\ ret.kind = "Apk") =>
        LET pack == trace[Len(trace) - 1]
            base == project.out_dir \o <<"/">> \o project.name
            qualifier == IF lastCall.config = <<>> THEN <<>>
                         ELSE <<".">> \o lastCall.config
        IN  /\ pack.stage = "pack_resources"
            /\ pack.args.apk_output = base \o qualifier \o <<".", "ap_">>
            /\ pack.args.apk_output \in fs
            /\ ret.filename = base \o <<".", "apk">>

C10_Witness ==
    /\ lastCall.op = "build"
    /\ lastCall.config = <<"de">>
    /\ ret.kind = "Apk"
    /\ project.name = ManifestPackage
    /\ <<"/", "work", "/", "bin", "/", "com", ".", "example", ".", "app",
         ".", "de", ".", "ap_">> \in fs

\* the invocations of a stage in a run, by position
StageAt(tr, stage) == {i \in 1..Len(tr) : tr[i].stage = stage}

\* the four stages of the composite compile
CompileStages == {"generate_r", "compile_aidl", "compile_java", "dex"}

\* C11: every invocation pack_resources makes of the resource packager
\* carries overwrite = TRUE, whatever the build was asked for and whether or
\* not the archive it names already exists, so no call sequence reaches a
\* no-clobber invocation; an invocation that succeeds leaves the archive at
\* its path.
C11_PackAlwaysOverwrites ==
    \A i \in StageAt(trace, "pack_resources") :
        /\ trace[i].tool = "aapt"
        /\ trace[i].args.command = "package"
        /\ trace[i].args.overwrite = TRUE
        /\ trace[i].ok => trace[i].args.apk_output \in fs

C11_Witness ==
    /\ lastCall.op = "build"
    /\ lastCall.archive
    /\ hist.builds >= 2
    /\ \E i \in StageAt(trace, "pack_resources") :
           /\ trace[i].ok
           /\ trace[i].args.overwrite = TRUE
           /\ trace[i].args.apk_output
                  = AbsPath(ResourceFilename(project, lastCall.config))

\* C12: constructing an AndroidProject with neither a platform nor an SDK
\* path raises the ValueError that asks for one of them, before anything
\* is read (no listing of the SDK's platforms, no manifest parse), and
\* leaves no project object: none of compile(), build() and clean() can
\* be called.
C12_ConstructorNeedsPlatformOrSdk ==
    (/\ lastCall.op = "construct"
     /\ lastCall.platform = NoPlatform
     /\ lastCall.sdk_dir = <<>>)
    => /\ ret = SdkPathNeeded
       /\ lastCall.reads = <<>>
       /\ project = NoProject
       /\ ~ENABLED Compile
       /\ ~ENABLED Build
       /\ ~ENABLED Clean

C12_Witness ==
    /\ lastCall.op = "construct"
    /\ lastCall.platform = NoPlatform
    /\ lastCall.sdk_dir = <<>>
    /\ lastCall.target = <<"9">>
    /\ lastCall.name = <<>>
    /\ Len(listing) = 2
    /\ ret.kind = "raised"
    /\ ret.exc = "ValueError"

\* C13: an align() whose zipalign succeeds returns an Apk, whether the
\* package was given as an Apk or as a path: the object that was passed when
\* aligning in place, a new Apk on this platform at the output path when a
\* separate output was given.
C13_AlignReturnsApk ==
    (/\ alignCall.op = "align"
     /\ ~win32
     /\ PackagePath(alignCall.apk) \in DOMAIN alignCall.files
     /\ alignCall.toolOk)
    => /\ alignRet.kind = "returned"
       /\ alignRet.value.kind = "Apk"
       /\ alignRet.value.platform = ThePlatform
       /\ alignRet.value.filename
              = IF alignCall.output = <<>> THEN PackagePath(alignCall.apk)
                ELSE alignCall.output
       /\ (alignCall.output = <<>> /\ alignCall.apk.kind = "Apk")
              => alignRet.value = alignCall.apk

\* C16: when zipalign fails during an in-place align(apk), the call raises
\* the tool's error and every file, the original package included, is still
\* there with the content it had before the call; the original's content
\* changes only in a call whose zipalign succeeded.
C16_FailedAlignKeepsOriginal ==
    (alignCall.op = "align" /\ alignCall.output = <<>>) =>
        /\ (alignCall.invoked # <<>> /\ ~alignCall.invoked[1].ok) =>
               /\ alignRet = Raised("ProgramFailedError")
               /\ \A p \in DOMAIN alignCall.files :
                      p \in DOMAIN files /\ files[p] = alignCall.files[p]
        /\ \A p \in DOMAIN alignCall.files :
               (p \notin DOMAIN files \/ files[p] # alignCall.files[p])
                   => /\ alignCall.invoked # <<>>
                      /\ alignCall.invoked[1].ok
                      /\ alignCall.toolOk

C16_Witness ==
    /\ alignCall.op = "align"
    /\ alignCall.output = <<>>
    /\ ~alignCall.toolOk
    /\ PackagePath(alignCall.apk) \in DOMAIN alignCall.files
    /\ alignCall.invoked # <<>>
    /\ ~alignCall.invoked[1].ok
    /\ alignRet = Raised("ProgramFailedError")
    /\ files[PackagePath(alignCall.apk)] = "package"
    /\ TempsOf(files, PackagePath(alignCall.apk)) = {}

\* C14: a build() that returns has invoked pack_resources exactly once and
\* then build_apk exactly once, as its last two invocations and so after
\* every compile stage of the call; build_apk was given the file of the
\* code object the project holds and the archive this call's pack_resources
\* wrote; the Apk returned is bound to the project's platform.
C14_BuildPacksThenAssembles ==
    (lastCall.op = "build" /\ ret.kind = "Apk") =>
        LET n == Len(trace)
        IN  /\ StageAt(trace, "pack_resources") = {n - 1}
            /\ StageAt(trace, "build_apk") = {n}
            /\ \A i \in 1..(n - 2) : trace[i].stage \in CompileStages
            /\ code.kind = "CodeObj"
            /\ trace[n].args.dex = code.filename
            /\ trace[n].args.zips = <<trace[n - 1].args.apk_output>>
            /\ trace[n - 1].args.apk_output
                   = AbsPath(ResourceFilename(project, lastCall.config))
            /\ ret.platform = project.platform
            /\ ret.filename = trace[n].args.outputfile

C14_Witness ==
    /\ lastCall.op = "build"
    /\ ret.kind = "Apk"
    /\ lastCall.config = <<"de">>
    /\ lastCall.code.kind = "CodeObj"
    /\ lastCall.archive
    /\ Len(trace) = 2

\* C15: the pack_resources invocation of a build() names the asset
\* directory exactly when the project's asset directory existed when that build()
\* was called, and then it names that directory; when the directory did not
\* exist the invocation has no asset_dir argument at all.
C15_AssetsPassedIffPresent ==
    lastCall.op = "build" =>
        \A i \in StageAt(trace, "pack_resources") :
            /\ ("asset_dir" \in DOMAIN trace[i].args) <=> lastCall.asset
            /\ lastCall.asset => trace[i].args.asset_dir = project.asset_dir

C15_Witness ==
    /\ lastCall.op = "build"
    /\ hist.builds >= 2
    /\ lastCall.archive
    /\ lastCall.asset
    /\ \E i \in StageAt(trace, "pack_resources") :
           /\ "asset_dir" \in DOMAIN trace[i].args
           /\ trace[i].ok

\* C17: compile() and build() change the cached code object only when the
\* call ran all four compile stages to the end (generate_r, compile_aidl
\* for every .aidl source, compile_java, dex), and then to the file dex
\* wrote; after a call whose compile failed the project holds what it held
\* before.  A build() runs the compile stages exactly when the project
\* holds no code object, so it compiles again after a failed first build
\* and does not after a failed compile() that followed a successful one.
C17_CodeCachedOnlyByCompleteCompile ==
    lastCall.op \in {"compile", "build"} =>
        /\ code # lastCall.code =>
               /\ \A st \in CompileStages \ {"compile_aidl"} :
                      StageCount(trace, st) = 1
               /\ StageCount(trace, "compile_aidl") = Cardinality(AidlSources)
               /\ \A i \in 1..Len(trace) :
                      trace[i].stage \in CompileStages => trace[i].ok
               /\ \E i \in StageAt(trace, "dex") :
                      code = CodeObj(trace[i].args.output)
        /\ (\E i \in 1..Len(trace) :
                trace[i].stage \in CompileStages /\ ~trace[i].ok)
               => code = lastCall.code
        /\ lastCall.op = "build" =>
               (StageAt(trace, "generate_r") # {}
                    <=> lastCall.code.kind = "absent")

C17_Witness ==
    /\ lastCall.op = "build"
    /\ lastCall.after = "build"
    /\ hist.calls = 2
    /\ lastCall.code.kind = "absent"
    /\ StageAt(trace, "generate_r") # {}
    /\ code.kind = "CodeObj"

\* C18: clean() leaves the cached code object as it was; a build() called
\* right after a clean() on a project that holds a code object finds the
\* output directory gone, invokes no compile stage, and gives build_apk the
\* cached <out>/classes.dex path.
C18_CleanKeepsCachedCode ==
    /\ lastCall.op = "clean" => code = lastCall.code
    /\ (lastCall.op = "build" /\ lastCall.after = "clean"
            /\ lastCall.code.kind = "CodeObj") =>
           /\ ~lastCall.bin
           /\ \A i \in 1..Len(trace) : trace[i].stage \notin CompileStages
           /\ code = lastCall.code
           /\ \A i \in StageAt(trace, "build_apk") :
                  /\ trace[i].args.dex = lastCall.code.filename
                  /\ trace[i].args.dex
                         = PathJoin(project.out_dir, <<"classes", ".", "dex">>)

C18_Witness ==
    /\ lastCall.op = "build"
    /\ lastCall.after = "clean"
    /\ lastCall.code.kind = "CodeObj"
    /\ ~lastCall.bin
    /\ StageAt(trace, "build_apk") # {}
    /\ ret.kind = "Apk"

\* C19: in every state a project can be in, build(output, config) makes
\* the same invocations with the same arguments and the same files written,
\* and so returns the same Apk, whatever ``output`` is: with a path given
\* exactly as with none.
C19_OutputArgumentIgnored ==
    \A config \in Configs : \A output \in Outputs :
        BuildInvocations(project, fs, code, output, config)
            = BuildInvocations(project, fs, code, <<>>, config)

C19_Witness ==
    /\ lastCall.op = "build"
    /\ lastCall.output # <<>>
    /\ ret.kind = "Apk"
    /\ ret.filename # AbsPath(lastCall.output)
    /\ AbsPath(lastCall.output) \notin fs

=============================================================================
